---- MODULE Spec2Model ----
(***************************************************************************)
(* Model of the ZooKeeperCluster reconciler (src/src/manager.rs).          *)
(*                                                                         *)
(* Option<T> values are sequences of length at most one: None is <<>> and  *)
(* Some(x) is <<x>>.  Strings are TLA+ strings, format!() is \o.            *)
(***************************************************************************)
EXTENDS Integers, Sequences, FiniteSets, TLC

(***************************************************************************)
(* Bounds of the model.                                                     *)
(***************************************************************************)
MaxReplicas == 2
MaxPasses == 2
MaxEnvSteps == 1
MaxComputeReplicas == 11

(***************************************************************************)
(* Program constants.                                                       *)
(***************************************************************************)
FINALIZER == "zookeeper.stackable.de/check-stuff"
FIELD_MANAGER == "zookeeper.stackable.de"
RequeueOk == 1800
RequeueErr == 360

\* A finalizer token held by an unrelated controller.
OTHER_FINALIZER == "example.com/other-controller"

\* Keys of the ZooKeeperCluster resources in the backend (metadata.name).
Keys == {"zk1"}
Versions == {"3.6.2", "3.5.8"}

None == <<>>
Some(x) == <<x>>
IsSome(o) == o # <<>>
Unwrap(o) == o[1]

Contains(seq, x) == \E j \in 1..Len(seq) : seq[j] = x

VARIABLES
    zk,              \* backend: ZooKeeperCluster objects, by key
    pods,            \* backend: Pod objects, by pod name
    last_event,      \* State.last_event
    lock,            \* RwLock<State>: [writer: Option<key>, readers: Nat]
    handled_events,  \* Metrics.handled_events
    now,             \* the clock read by Utc::now(): the number of dispatches so far
    pc,              \* position of the reconcile task of each key
    snap,            \* zk_cluster: the snapshot handed to reconcile
    idx,             \* loop variable i of reconcile
    err,             \* Option<Error>: the Err the task returned
    action,          \* Option<ReconcilerAction>: the directive in force
    pass,            \* per pass log of what the task has done
    hist,            \* outcome of the previous pass of each key
    env_steps        \* number of steps other actors have taken

vars == <<zk, pods, last_event, lock, handled_events, now, pc, snap, idx, err,
          action, pass, hist, env_steps>>

(***************************************************************************)
(* Pure parts of reconcile.                                                 *)
(***************************************************************************)

\* #[derive(Debug)] on ZooKeeperVersion: {:?} prints the variant's identifier,
\* not its serde name.
DebugVersion(version) ==
    IF version = "3.6.2" THEN "v3_6_2" ELSE "v3_5_8"

create_tolerations ==
    << [effect |-> Some("NoExecute"), key |-> Some("kubernetes.io/arch"),
        operator |-> Some("Equal"), toleration_seconds |-> None,
        value |-> Some("stackable-linux")],
       [effect |-> Some("NoSchedule"), key |-> Some("kubernetes.io/arch"),
        operator |-> Some("Equal"), toleration_seconds |-> None,
        value |-> Some("stackable-linux")],
       [effect |-> Some("NoSchedule"),
        key |-> Some("node.kubernetes.io/network-unavailable"),
        operator |-> Some("Exists"), toleration_seconds |-> None,
        value |-> None] >>

\* object_to_owner_reference that puts "" for a missing uid.
object_to_owner_reference_lenient(meta) ==
    IF ~IsSome(meta.name)
    THEN [ok |-> FALSE, error |-> "MissingObjectKey"]
    ELSE [ok |-> TRUE,
          value |-> [api_version |-> "zookeeper.stackable.de/v1",
                     kind |-> "ZooKeeperCluster",
                     name |-> Unwrap(meta.name),
                     uid |-> IF IsSome(meta.uid) THEN Unwrap(meta.uid) ELSE "",
                     controller |-> None]]

\* Result<OwnerReference, Error>: [ok |-> TRUE, value |-> ...] or
\* [ok |-> FALSE, error |-> ...].
object_to_owner_reference(meta) ==
    IF ~IsSome(meta.name)
    THEN [ok |-> FALSE, error |-> "MissingObjectKey"]
    ELSE IF ~IsSome(meta.uid)
    THEN [ok |-> FALSE, error |-> "MissingObjectKey"]
    ELSE [ok |-> TRUE,
          value |-> [api_version |-> "zookeeper.stackable.de/v1",
                     kind |-> "ZooKeeperCluster",
                     name |-> Unwrap(meta.name),
                     uid |-> Unwrap(meta.uid),
                     controller |-> None]]

\* pod_name with the index cut to one digit.
pod_name_one_digit(name, i) == name \o "-" \o ToString(i % 10)

\* format!("{}-{}", name, i)
pod_name(name, i) == name \o "-" \o ToString(i)

\* pod with a label that carries the time of the pass.
pod_stamped(zk_cluster, name, i, owner) ==
    LET labels == [l \in {"zookeeper-name"} |-> name]
        stamped == [l \in {"zookeeper-name", "applied-at"} |->
                       IF l = "applied-at" THEN ToString(now) ELSE name]
    IN
    [metadata |->
        [name |-> Some(pod_name(name, i)),
         owner_references |-> Some(<<[owner EXCEPT !.controller = Some(TRUE)]>>),
         labels |-> Some(stamped)],
     spec |->
        [tolerations |-> Some(create_tolerations),
         containers |->
            <<[image |-> Some("stackable/zookeeper:"
                              \o DebugVersion(zk_cluster.spec.version)),
               name |-> "zookeeper"]>>,
         affinity |->
            [match_labels |-> Some(labels),
             topology_key |-> "kubernetes.io/hostname"]]]

\* The Pod built by iteration i of the loop, given the owner reference.
pod(zk_cluster, name, i, owner) ==
    LET labels == [l \in {"zookeeper-name"} |-> name] IN
    [metadata |->
        [name |-> Some(pod_name(name, i)),
         owner_references |-> Some(<<[owner EXCEPT !.controller = Some(TRUE)]>>),
         labels |-> Some(labels)],
     spec |->
        [tolerations |-> Some(create_tolerations),
         containers |->
            <<[image |-> Some("stackable/zookeeper:"
                              \o DebugVersion(zk_cluster.spec.version)),
               name |-> "zookeeper"]>>,
         affinity |->
            [match_labels |-> Some(labels),
             topology_key |-> "kubernetes.io/hostname"]]]

\* What handle_deletion decides: whether it reports "handled" and the
\* finalizer list it persists, if any.  The function returns Ok(false) in
\* its first statement; the code after that statement is never executed.
handle_deletion(zk_cluster) ==
    IF TRUE
    THEN [handled |-> FALSE, patch |-> None]
    ELSE IF IsSome(zk_cluster.metadata.deletion_timestamp)
    THEN IF IsSome(zk_cluster.metadata.finalizers)
              /\ Contains(Unwrap(zk_cluster.metadata.finalizers), FINALIZER)
         THEN LET finalizers == Unwrap(zk_cluster.metadata.finalizers)
                  index == CHOOSE j \in 1..Len(finalizers) :
                              /\ finalizers[j] = FINALIZER
                              /\ \A h \in 1..(j - 1) : finalizers[h] # FINALIZER
                  \* Vec::swap_remove: the last element takes the place of
                  \* the removed one.
                  swapped == [finalizers EXCEPT ![index] = finalizers[Len(finalizers)]]
              IN  [handled |-> TRUE,
                   patch |-> Some(SubSeq(swapped, 1, Len(finalizers) - 1))]
         ELSE [handled |-> FALSE, patch |-> None]
    ELSE LET finalizers ==
                 IF IsSome(zk_cluster.metadata.finalizers)
                 THEN Unwrap(zk_cluster.metadata.finalizers)
                 ELSE <<>>
         IN  IF ~Contains(finalizers, FINALIZER)
             THEN [handled |-> FALSE, patch |-> Some(Append(finalizers, FINALIZER))]
             ELSE [handled |-> FALSE, patch |-> None]

\* The ReconcilerAction reconcile returns on success.
ok_action == [requeue_after |-> Some(RequeueOk)]

\* The ReconcilerAction reconcile returns after a handled deletion.
deleted_action == [requeue_after |-> None]

\* error_policy that gives up on a serialization error.
error_policy_by_kind(error) ==
    IF error = "SerializationFailed"
    THEN [requeue_after |-> None]
    ELSE [requeue_after |-> Some(RequeueErr)]

error_policy(error) == [requeue_after |-> Some(RequeueErr)]

(***************************************************************************)
(* The backend (the API server) as the reconciler's calls see it.           *)
(***************************************************************************)

\* The ZooKeeperCluster object of key k as a user creates it.
NewCluster(k, version, replicas, finalizers) ==
    [metadata |-> [name |-> Some(k),
                   uid |-> Some("uid-" \o k),
                   deletion_timestamp |-> None,
                   finalizers |-> finalizers],
     spec |-> [version |-> version, replicas |-> replicas],
     status |-> None]

\* The body of the status patch.
new_status == [status |-> [is_bad |-> FALSE]]

\* patch_status with a merge patch: the status sub-object takes the patch's
\* fields, nothing else changes.
PatchStatusIn(objs, k, body) == [objs EXCEPT ![k].status = Some(body.status)]

\* patch with a merge patch {"metadata": {"finalizers": [...]}}: the list in
\* the backend is replaced by the list sent.
PatchFinalizersIn(objs, k, finalizers) ==
    [objs EXCEPT ![k].metadata.finalizers =
                     IF finalizers = <<>> THEN None ELSE Some(finalizers)]

\* ServerSideApply that drops every other object of the collection.
ServerSideApply_replace(objs, name, body) ==
    [n \in {name} |-> [applied |-> body, manager |-> FIELD_MANAGER]]

\* patch with PatchStrategy::Apply and field_manager FIELD_MANAGER: the object
\* is created if absent; the fields the manager applies take the sent values.
ServerSideApply(objs, name, body) ==
    IF name \in DOMAIN objs
    THEN [objs EXCEPT ![name].applied = body, ![name].manager = FIELD_MANAGER]
    ELSE [n \in DOMAIN objs \cup {name} |->
             IF n = name
             THEN [applied |-> body, manager |-> FIELD_MANAGER]
             ELSE objs[n]]

\* The outcomes of one serialize-and-send step.
CallOutcomes == {"ok", "SerializationFailed", "PatchFailed"}

\* The Error a failed step is wrapped in: .context(SerializationFailed),
\* .context(ZooKeeperClusterPatchFailed), .context(PodPatchFailed).
ClusterCallError(out) ==
    IF out = "SerializationFailed" THEN "SerializationFailed"
    ELSE "ZooKeeperClusterPatchFailed"

PodCallError(out) ==
    IF out = "SerializationFailed" THEN "SerializationFailed"
    ELSE "PodPatchFailed"

\* The objects of the backend that belong to key k.
OwnedPods(k) ==
    {n \in DOMAIN pods :
        Unwrap(pods[n].applied.metadata.owner_references)[1].name = k}

View(k) == [cluster |-> zk[k], children |-> [n \in OwnedPods(k) |-> pods[n]]]

\* Two snapshots agree on everything reconcile reads.
SameInput(a, b) == a.metadata = b.metadata /\ a.spec = b.spec

NewPass == [applied |-> <<>>, status_patches |-> 0, meta_patches |-> 0,
            incs |-> 0, dispatched_at |-> 0, handled |-> None, fault |-> None,
            prev |-> None, replay |-> FALSE]

(***************************************************************************)
(* Initial state: Manager::new has run, no reconcile has been dispatched.   *)
(***************************************************************************)
Init ==
    /\ zk \in [Keys -> {NewCluster(k, "3.6.2", r, f) :
                            k \in Keys, r \in 0..MaxReplicas,
                            f \in {None, Some(<<FINALIZER>>),
                                   Some(<<OTHER_FINALIZER>>)}}]
    /\ \A k \in Keys : zk[k].metadata.name = Some(k)
    /\ pods = [n \in {} |-> None]
    /\ last_event = 0
    /\ lock = [writer |-> None, readers |-> {}]
    /\ handled_events = 0
    /\ now = 0
    /\ pc = [k \in Keys |-> "idle"]
    /\ snap = zk
    /\ idx = [k \in Keys |-> 0]
    /\ err = [k \in Keys |-> None]
    /\ action = [k \in Keys |-> None]
    /\ pass = [k \in Keys |-> NewPass]
    /\ hist = [k \in Keys |-> None]
    /\ env_steps = 0

(***************************************************************************)
(* The controller runtime: dispatch of reconcile and of error_policy.       *)
(***************************************************************************)

\* Controller::run hands reconcile a snapshot of the object of key k; at most
\* one reconcile per key is in flight.  The uid of the snapshot is an
\* Option; the snapshot may come without it.
Deliver(k) ==
    /\ pc[k] \in {"idle", "done"}
    /\ now < MaxPasses
    /\ \E uid \in {zk[k].metadata.uid, None} :
         LET zk_cluster == [zk[k] EXCEPT !.metadata.uid = uid]
             replay == /\ pc[k] = "done"
                       /\ IsSome(hist[k])
                       /\ SameInput(zk_cluster, snap[k])
         IN  /\ snap' = [snap EXCEPT ![k] = zk_cluster]
             /\ pass' = [pass EXCEPT ![k] =
                            [NewPass EXCEPT
                                !.dispatched_at = now + 1,
                                !.prev = IF pc[k] = "done"
                                         THEN Some([err |-> err[k], fault |-> pass[k].fault])
                                         ELSE None,
                                !.replay = replay]]
             /\ hist' = [hist EXCEPT ![k] = IF replay THEN hist[k] ELSE None]
    /\ pc' = [pc EXCEPT ![k] = "start"]
    /\ idx' = [idx EXCEPT ![k] = 0]
    /\ err' = [err EXCEPT ![k] = None]
    /\ action' = [action EXCEPT ![k] = None]
    /\ now' = now + 1
    /\ UNCHANGED <<zk, pods, last_event, lock, handled_events, env_steps>>

\* reconcile returned Err(error): the runtime asks error_policy for the
\* directive.
ErrorPolicy(k) ==
    /\ pc[k] = "failed"
    /\ action' = [action EXCEPT ![k] = Some(error_policy(Unwrap(err[k])))]
    /\ pc' = [pc EXCEPT ![k] = "done"]
    /\ UNCHANGED <<zk, pods, last_event, lock, handled_events, now, snap, idx,
                   err, pass, hist, env_steps>>

(***************************************************************************)
(* reconcile, one action per stretch between two suspension points.         *)
(***************************************************************************)

\* ctx.get_ref().state.write().await: the write guard is granted.
AcquireStateLock(k) ==
    /\ pc[k] = "start"
    /\ lock.writer = None
    /\ lock.readers = {}
    /\ lock' = [lock EXCEPT !.writer = Some(k)]
    /\ pc' = [pc EXCEPT ![k] = "locked"]
    /\ UNCHANGED <<zk, pods, last_event, handled_events, now, snap, idx, err,
                   action, pass, hist, env_steps>>

\* AfterLastEvent that goes to the status patch without handle_deletion.
AfterLastEvent_status == "patch_status"

\* Where the task goes once last_event is written and the guard is dropped.
AfterLastEvent == "handle_deletion"

\* ReleasedLock that keeps the write guard alive past the statement.
ReleasedLock_held(l) == l

\* The lock after the statement that writes last_event: the guard is a
\* temporary, dropped at the end of the statement.
ReleasedLock(l) == [l EXCEPT !.writer = None]

\* StampedEvent that leaves last_event as it was.
StampedEvent_stale(old, reading) == old

\* The value the statement leaves in last_event, given the clock's reading.
StampedEvent(old, reading) == reading

\* .last_event = Utc::now();
RecordLastEvent(k) ==
    /\ pc[k] = "locked"
    /\ last_event' = StampedEvent(last_event, now)
    /\ lock' = ReleasedLock(lock)
    /\ pc' = [pc EXCEPT ![k] = AfterLastEvent]
    /\ UNCHANGED <<zk, pods, handled_events, now, snap, idx, err, action, pass,
                   hist, env_steps>>

\* The first failed call of the pass, if any: [stage, idx].
NoteFault(p, out, stage, i) ==
    IF out # "ok" /\ p.fault = None
    THEN [p EXCEPT !.fault = Some([stage |-> stage, idx |-> i])]
    ELSE p

\* How the task goes on after handle_deletion(...).await? returned:
\* return Ok(ReconcilerAction { requeue_after: None }) if it reported true.
DeletionResult(out, handled) ==
    IF out # "ok"
    THEN [pc |-> "failed", err |-> Some(ClusterCallError(out)), action |-> None]
    ELSE IF handled
    THEN [pc |-> "done", err |-> None, action |-> Some(deleted_action)]
    ELSE [pc |-> "patch_status", err |-> None, action |-> None]

\* if handle_deletion(zk_cluster.clone(), &name, &zookeeper_clusters, &ps).await? {...}
HandleDeletion(k) ==
    /\ pc[k] = "handle_deletion"
    /\ LET r == handle_deletion(snap[k]) IN
       \E out \in (IF IsSome(r.patch) THEN CallOutcomes ELSE {"ok"}) :
          LET next == DeletionResult(out, r.handled) IN
          /\ zk' = IF IsSome(r.patch) /\ out = "ok"
                   THEN PatchFinalizersIn(zk, k, Unwrap(r.patch))
                   ELSE zk
          /\ pass' = [pass EXCEPT ![k] =
                         [NoteFault(@, out, "metadata", 0) EXCEPT
                             !.meta_patches =
                                 IF IsSome(r.patch) /\ out = "ok" THEN @ + 1 ELSE @,
                             !.handled = IF out = "ok" THEN Some(r.handled) ELSE @]]
          /\ pc' = [pc EXCEPT ![k] = next.pc]
          /\ err' = [err EXCEPT ![k] = next.err]
          /\ action' = [action EXCEPT ![k] = next.action]
    /\ UNCHANGED <<pods, last_event, lock, handled_events, now, snap, idx,
                   hist, env_steps>>

\* StatusPatchResult that drops the error and goes on to the loop.
StatusPatchResult_swallow(out) ==
    [pc |-> "apply", err |-> None]

\* How the task goes on after patch_status(...).await.context(...)?.
StatusPatchResult(out) ==
    IF out = "ok"
    THEN [pc |-> "apply", err |-> None]
    ELSE [pc |-> "failed", err |-> Some(ClusterCallError(out))]

\* serde_json::to_vec(&json!({"status": ...})) and
\* zookeeper_clusters.patch_status(&name, &ps, new_status).await
PatchStatus(k) ==
    /\ pc[k] = "patch_status"
    /\ \E out \in CallOutcomes :
         LET next == StatusPatchResult(out) IN
         /\ zk' = IF out = "ok" THEN PatchStatusIn(zk, k, new_status) ELSE zk
         /\ pass' = [pass EXCEPT ![k] =
                        [NoteFault(@, out, "status", 0) EXCEPT
                            !.status_patches = IF out = "ok" THEN @ + 1 ELSE @]]
         /\ pc' = [pc EXCEPT ![k] = next.pc]
         /\ err' = [err EXCEPT ![k] = next.err]
    /\ UNCHANGED <<pods, last_event, lock, handled_events, now, snap, idx,
                   action, hist, env_steps>>

\* PodPatchResult that steps the index by two.
PodPatchResult_skip(out, i) ==
    IF out = "ok"
    THEN [pc |-> "apply", idx |-> i + 2, err |-> None]
    ELSE [pc |-> "failed", idx |-> i, err |-> Some(PodCallError(out))]

\* PodPatchResult that drops the error and goes on with the next child.
PodPatchResult_swallow(out, i) ==
    [pc |-> "apply", idx |-> i + 1, err |-> None]

\* How the loop goes on after iteration i: the next index, or the error
\* that ? returns from reconcile.
PodPatchResult(out, i) ==
    IF out = "ok"
    THEN [pc |-> "apply", idx |-> i + 1, err |-> None]
    ELSE [pc |-> "failed", idx |-> i, err |-> Some(PodCallError(out))]

\* One iteration of for i in 0..zk_cluster.spec.replicas.
ApplyChild(k) ==
    /\ pc[k] = "apply"
    /\ idx[k] < snap[k].spec.replicas
    /\ LET name == Unwrap(snap[k].metadata.name)
           owner == object_to_owner_reference(snap[k].metadata)
       IN  IF ~owner.ok
           THEN /\ err' = [err EXCEPT ![k] = Some(owner.error)]
                /\ pc' = [pc EXCEPT ![k] = "failed"]
                /\ UNCHANGED <<pods, pass, idx>>
           ELSE \E out \in CallOutcomes :
                  LET next == PodPatchResult(out, idx[k]) IN
                  /\ pods' = IF out = "ok"
                             THEN ServerSideApply(pods, pod_name(name, idx[k]),
                                      pod(snap[k], name, idx[k], owner.value))
                             ELSE pods
                  /\ pass' = [pass EXCEPT ![k] =
                                 [NoteFault(@, out, "apply", idx[k]) EXCEPT
                                     !.applied =
                                         IF out = "ok"
                                         THEN Append(@, pod_name(name, idx[k]))
                                         ELSE @]]
                  /\ pc' = [pc EXCEPT ![k] = next.pc]
                  /\ idx' = [idx EXCEPT ![k] = next.idx]
                  /\ err' = [err EXCEPT ![k] = next.err]
    /\ UNCHANGED <<zk, last_event, lock, handled_events, now, snap, action,
                   hist, env_steps>>

\* The loop is over: handled_events.inc() and Ok(ReconcilerAction {...}).
Finish(k) ==
    /\ pc[k] = "apply"
    /\ idx[k] >= snap[k].spec.replicas
    /\ handled_events' = handled_events + 1
    /\ pass' = [pass EXCEPT ![k].incs = @ + 1]
    /\ action' = [action EXCEPT ![k] = Some(ok_action)]
    /\ hist' = [hist EXCEPT ![k] = IF pass[k].replay THEN @ ELSE Some(View(k))]
    /\ pc' = [pc EXCEPT ![k] = "done"]
    /\ UNCHANGED <<zk, pods, last_event, lock, now, snap, idx, err, env_steps>>

(***************************************************************************)
(* Manager::state: the status surface reads the Observable State Store.     *)
(***************************************************************************)
Readers == {"status"}

\* self.state.read().await: the read guard is granted.
StateReadBegin(r) ==
    /\ r \notin lock.readers
    /\ lock.writer = None
    /\ lock' = [lock EXCEPT !.readers = @ \cup {r}]
    /\ UNCHANGED <<zk, pods, last_event, handled_events, now, pc, snap, idx,
                   err, action, pass, hist, env_steps>>

\* .clone(): the State is copied and the guard dropped.
StateReadEnd(r) ==
    /\ r \in lock.readers
    /\ lock' = [lock EXCEPT !.readers = @ \ {r}]
    /\ UNCHANGED <<zk, pods, last_event, handled_events, now, pc, snap, idx,
                   err, action, pass, hist, env_steps>>

(***************************************************************************)
(* The other actors on the backend.                                         *)
(***************************************************************************)

\* A user changes spec.replicas.
UserScale(k, n) ==
    /\ env_steps < MaxEnvSteps
    /\ n # zk[k].spec.replicas
    /\ zk' = [zk EXCEPT ![k].spec.replicas = n]
    /\ hist' = [hist EXCEPT ![k] = None]
    /\ env_steps' = env_steps + 1
    /\ UNCHANGED <<pods, last_event, lock, handled_events, now, pc, snap, idx,
                   err, action, pass>>

\* A user deletes the object.  The backend sets deletionTimestamp and keeps
\* the object while finalizers are left; with none left the object is gone
\* at once and no snapshot of it is delivered.
UserDelete(k) ==
    /\ env_steps < MaxEnvSteps
    /\ ~IsSome(zk[k].metadata.deletion_timestamp)
    /\ IsSome(zk[k].metadata.finalizers)
    /\ zk' = [zk EXCEPT ![k].metadata.deletion_timestamp = Some(now)]
    /\ hist' = [hist EXCEPT ![k] = None]
    /\ env_steps' = env_steps + 1
    /\ UNCHANGED <<pods, last_event, lock, handled_events, now, pc, snap, idx,
                   err, action, pass>>

\* Another controller adds its own finalizer token (the backend refuses new
\* finalizers once deletionTimestamp is set).
OtherAddFinalizer(k) ==
    /\ env_steps < MaxEnvSteps
    /\ ~IsSome(zk[k].metadata.deletion_timestamp)
    /\ LET finalizers == IF IsSome(zk[k].metadata.finalizers)
                         THEN Unwrap(zk[k].metadata.finalizers) ELSE <<>>
       IN  /\ ~Contains(finalizers, OTHER_FINALIZER)
           /\ zk' = [zk EXCEPT ![k].metadata.finalizers =
                                   Some(Append(finalizers, OTHER_FINALIZER))]
    /\ hist' = [hist EXCEPT ![k] = None]
    /\ env_steps' = env_steps + 1
    /\ UNCHANGED <<pods, last_event, lock, handled_events, now, pc, snap, idx,
                   err, action, pass>>

Next ==
    \/ \E k \in Keys : Deliver(k)
    \/ \E k \in Keys : AcquireStateLock(k)
    \/ \E k \in Keys : RecordLastEvent(k)
    \/ \E k \in Keys : HandleDeletion(k)
    \/ \E k \in Keys : PatchStatus(k)
    \/ \E k \in Keys : ApplyChild(k)
    \/ \E k \in Keys : Finish(k)
    \/ \E k \in Keys : ErrorPolicy(k)
    \/ \E r \in Readers : StateReadBegin(r)
    \/ \E r \in Readers : StateReadEnd(r)
    \/ \E k \in Keys, n \in 0..MaxReplicas : UserScale(k, n)
    \/ \E k \in Keys : UserDelete(k)
    \/ \E k \in Keys : OtherAddFinalizer(k)

Spec == Init /\ [][Next]_vars

(***************************************************************************)
(* Desired-State Compute on its own: the loop of reconcile from the state   *)
(* a pass is in once the status patch has succeeded, for resources with up  *)
(* to MaxComputeReplicas replicas.                                          *)
(***************************************************************************)
InitCompute ==
    /\ zk \in [Keys -> {PatchStatusIn([h \in Keys |-> NewCluster(k, v, r, None)],
                                      k, new_status)[k] :
                            k \in Keys, v \in Versions,
                            r \in 0..MaxComputeReplicas}]
    /\ \A k \in Keys : zk[k].metadata.name = Some(k)
    /\ pods = [n \in {} |-> None]
    /\ last_event = 1
    /\ lock = [writer |-> None, readers |-> {}]
    /\ handled_events = 0
    /\ now = 1
    /\ pc = [k \in Keys |-> "apply"]
    /\ snap = [k \in Keys |-> [zk[k] EXCEPT !.status = None]]
    /\ idx = [k \in Keys |-> 0]
    /\ err = [k \in Keys |-> None]
    /\ action = [k \in Keys |-> None]
    /\ pass = [k \in Keys |->
                  [NewPass EXCEPT !.dispatched_at = 1,
                                  !.handled = Some(FALSE),
                                  !.status_patches = 1]]
    /\ hist = [k \in Keys |-> None]
    /\ env_steps = 0

NextCompute ==
    \/ \E k \in Keys : ApplyChild(k)
    \/ \E k \in Keys : Finish(k)
    \/ \E k \in Keys : ErrorPolicy(k)

SpecCompute == InitCompute /\ [][NextCompute]_vars

(***************************************************************************)
(* The controller under fair scheduling against a backend that stops        *)
(* failing.  Controller::run re-dispatches a key when the directive of its  *)
(* last pass carries a requeue_after; the tokio runtime polls every ready   *)
(* task, and its RwLock queues waiters fairly.                              *)
(***************************************************************************)

\* The passes in which calls may still fail: all but the last.
MaxFaultyPasses == MaxPasses - 1

\* The timer of requeue_after fires: the key is dispatched again (a key
\* that was never reconciled is dispatched by the initial list).
Requeue(k) ==
    /\ \/ pc[k] = "idle"
       \/ /\ IsSome(action[k])
          /\ IsSome(Unwrap(action[k]).requeue_after)
    /\ Deliver(k)

\* From pass MaxFaultyPasses + 1 on no call fails and every snapshot carries
\* its identity fields.
BackendSettled ==
    now' > MaxFaultyPasses =>
        \A k \in Keys :
            /\ (pc'[k] = "failed" => pc[k] = "failed")
            /\ (pc'[k] = "start" => /\ IsSome(snap'[k].metadata.name)
                                   /\ IsSome(snap'[k].metadata.uid))

FairNext ==
    \/ \E k \in Keys : Deliver(k) /\ BackendSettled
    \/ \E k \in Keys : AcquireStateLock(k)
    \/ \E k \in Keys : RecordLastEvent(k)
    \/ \E k \in Keys : HandleDeletion(k) /\ BackendSettled
    \/ \E k \in Keys : PatchStatus(k) /\ BackendSettled
    \/ \E k \in Keys : ApplyChild(k) /\ BackendSettled
    \/ \E k \in Keys : Finish(k)
    \/ \E k \in Keys : ErrorPolicy(k)
    \/ \E r \in Readers : StateReadBegin(r)
    \/ \E r \in Readers : StateReadEnd(r)
    \/ \E k \in Keys, n \in 0..MaxReplicas : UserScale(k, n)
    \/ \E k \in Keys : UserDelete(k)
    \/ \E k \in Keys : OtherAddFinalizer(k)

\* A step of the reconcile task of key k that waits for no lock: the task is
\* ready and the runtime polls it.
TaskStep(k) ==
    \/ RecordLastEvent(k)
    \/ HandleDeletion(k)
    \/ PatchStatus(k)
    \/ ApplyChild(k)
    \/ Finish(k)
    \/ ErrorPolicy(k)

Fairness ==
    /\ \A k \in Keys :
           /\ WF_vars(Requeue(k))
           /\ SF_vars(AcquireStateLock(k))
           /\ WF_vars(TaskStep(k))
    /\ \A r \in Readers : WF_vars(StateReadEnd(r))

FairSpec == Init /\ [][FairNext]_vars /\ Fairness

(***************************************************************************)
(* Vocabulary of the properties.                                            *)
(***************************************************************************)

\* The snapshot is of an Active resource (deletionTimestamp unset).
Active(zk_cluster) == ~IsSome(zk_cluster.metadata.deletion_timestamp)

FinalizersOf(zk_cluster) ==
    IF IsSome(zk_cluster.metadata.finalizers)
    THEN Unwrap(zk_cluster.metadata.finalizers)
    ELSE <<>>

Count(seq, x) == Cardinality({j \in 1..Len(seq) : seq[j] = x})

HasToken(zk_cluster) == Contains(FinalizersOf(zk_cluster), FINALIZER)

\* The snapshot carries the identity fields the backend assigns.
WellFormed(zk_cluster) ==
    IsSome(zk_cluster.metadata.name) /\ IsSome(zk_cluster.metadata.uid)

\* The pass of key k is over and none of its calls failed.
CleanPass(k) ==
    pc[k] = "done" /\ pass[k].fault = None /\ WellFormed(snap[k])

\* Decimal digits, written out independently of ToString.
Digit(d) == <<"0", "1", "2", "3", "4", "5", "6", "7", "8", "9">>[d + 1]

RECURSIVE Decimal(_)
Decimal(n) == IF n < 10 THEN Digit(n) ELSE Decimal(n \div 10) \o Digit(n % 10)

\* "{resourceName}-{i}" for i in [0, n).
ChildNames(k, n) == [j \in 1..n |-> k \o "-" \o Decimal(j - 1)]

\* Every child name of the sequence is in the backend.
AllPresent(names) == \A j \in 1..Len(names) : names[j] \in DOMAIN pods

(***************************************************************************)
(* Properties.                                                              *)
(***************************************************************************)

\* C1: a reconcile of an Active resource with replicaCount N in which every
\* call succeeds applies exactly the children "{name}-0" .. "{name}-(N-1)",
\* issues exactly one status patch with is_bad = false, increments
\* handled_events exactly once and returns requeue after 1800 s.
C1_ActivePassApplies ==
    \A k \in Keys :
        (CleanPass(k) /\ Active(snap[k])) =>
            /\ err[k] = None
            /\ pass[k].applied = ChildNames(k, snap[k].spec.replicas)
            /\ AllPresent(pass[k].applied)
            /\ pass[k].status_patches = 1
            /\ zk[k].status = Some([is_bad |-> FALSE])
            /\ pass[k].incs = 1
            /\ action[k] = Some([requeue_after |-> Some(1800)])

C1_Witness ==
    \E k \in Keys :
        /\ CleanPass(k)
        /\ Active(snap[k])
        /\ snap[k].spec.replicas = 2
        /\ Len(pass[k].applied) = 2
        /\ handled_events = 1

\* C2: one reconcile of an Active resource whose finalizers lack the token
\* persists a finalizer list with exactly one occurrence of the token; a
\* reconcile of an Active resource that has the token writes no metadata.
C2_FinalizerAddedOnce ==
    \A k \in Keys :
        /\ (CleanPass(k) /\ Active(snap[k]) /\ ~HasToken(snap[k])) =>
               Count(FinalizersOf(zk[k]), FINALIZER) = 1
        /\ (CleanPass(k) /\ Active(snap[k]) /\ HasToken(snap[k])) =>
               pass[k].meta_patches = 0

\* C3: one reconcile of a resource with deletionTimestamp set and the token
\* present persists a finalizer list without the token, keeps every other
\* token, and handle_deletion reports "handled".
C3_FinalizerRemoved ==
    \A k \in Keys :
        (CleanPass(k) /\ ~Active(snap[k]) /\ HasToken(snap[k])) =>
            /\ ~HasToken(zk[k])
            /\ \A j \in 1..Len(FinalizersOf(snap[k])) :
                   FinalizersOf(snap[k])[j] # FINALIZER =>
                       Contains(FinalizersOf(zk[k]), FinalizersOf(snap[k])[j])
            /\ pass[k].handled = Some(TRUE)

\* C4: a reconcile of a resource with deletionTimestamp set and the token
\* absent reports "handled" and writes nothing: no metadata patch, no child
\* apply, no status patch.
C4_DeletingWithoutToken ==
    \A k \in Keys :
        (CleanPass(k) /\ ~Active(snap[k]) /\ ~HasToken(snap[k])) =>
            /\ pass[k].handled = Some(TRUE)
            /\ pass[k].meta_patches = 0
            /\ pass[k].applied = <<>>
            /\ pass[k].status_patches = 0

\* C5: a reconcile of a resource with deletionTimestamp set and the token
\* present applies no child, patches no status, leaves handled_events alone
\* and returns the directive with requeue_after = None.
C5_DeletionPassFrame ==
    \A k \in Keys :
        (CleanPass(k) /\ ~Active(snap[k]) /\ HasToken(snap[k])) =>
            /\ pass[k].applied = <<>>
            /\ pass[k].status_patches = 0
            /\ pass[k].incs = 0
            /\ action[k] = Some([requeue_after |-> None])

\* The first failed call of the pass was the apply of a child.
ApplyFault(fault) == IsSome(fault) /\ Unwrap(fault).stage = "apply"

\* C6: if the apply of child k fails, the pass ends there with an error: the
\* children applied in the pass are exactly 0..k-1 (none above k), they stay
\* in the backend, handled_events is not incremented and the directive is
\* requeue after 360 s; a later pass in which every call succeeds applies all
\* N children again.
C6_ChildApplyFailure ==
    \A k \in Keys :
        /\ ApplyFault(pass[k].fault) =>
               /\ pc[k] \in {"failed", "done"}
               /\ IsSome(err[k])
               /\ pass[k].applied = ChildNames(k, Unwrap(pass[k].fault).idx)
               /\ AllPresent(pass[k].applied)
               /\ pass[k].incs = 0
               /\ pc[k] = "done" => action[k] = Some([requeue_after |-> Some(360)])
        /\ ( /\ CleanPass(k)
             /\ Active(snap[k])
             /\ IsSome(pass[k].prev)
             /\ ApplyFault(Unwrap(pass[k].prev).fault) ) =>
               /\ pass[k].applied = ChildNames(k, snap[k].spec.replicas)
               /\ AllPresent(pass[k].applied)
               /\ pass[k].incs = 1

C6_Witness ==
    \E k \in Keys :
        /\ CleanPass(k)
        /\ Active(snap[k])
        /\ IsSome(pass[k].prev)
        /\ Unwrap(pass[k].prev).fault = Some([stage |-> "apply", idx |-> 1])
        /\ Len(pass[k].applied) = 2

\* C7: the directive depends on the outcome only: a reconcile that ends in
\* an error of any kind yields requeue after 360 s, one that completes
\* without error on a non-deleting resource yields requeue after 1800 s.
C7_DirectiveByOutcome ==
    \A k \in Keys :
        pc[k] = "done" =>
            /\ IsSome(err[k]) =>
                   action[k] = Some([requeue_after |-> Some(360)])
            /\ (err[k] = None /\ Active(snap[k])) =>
                   action[k] = Some([requeue_after |-> Some(1800)])

C7_Witness ==
    \E k \in Keys :
        /\ pc[k] = "done"
        /\ err[k] = Some("SerializationFailed")
        /\ IsSome(pass[k].prev)
        /\ Unwrap(pass[k].prev).err = Some("MissingObjectKey")
        /\ action[k] = Some([requeue_after |-> Some(360)])

\* C9: a successful reconcile replayed on the same unchanged snapshot leaves
\* the backend (the resource with its status and finalizers, the children
\* and their applied fields) as the earlier successful pass left it.
C9_ReplayIdempotent ==
    \A k \in Keys :
        (pc[k] = "done" /\ err[k] = None /\ pass[k].replay /\ IsSome(hist[k])) =>
            View(k) = Unwrap(hist[k])

C9_Witness ==
    \E k \in Keys :
        /\ pc[k] = "done"
        /\ err[k] = None
        /\ pass[k].replay
        /\ IsSome(hist[k])
        /\ Len(pass[k].applied) = 2
        /\ pass[k].status_patches = 1

\* C10: last_event is written at the start of every reconcile, before any
\* backend call, and holds a reading taken after the dispatch however the
\* invocation goes on (success, failure at any step, handled deletion).
C10_LastEventFirst ==
    \A k \in Keys :
        /\ pc[k] \in {"handle_deletion", "patch_status", "apply", "failed", "done"} =>
               last_event >= pass[k].dispatched_at
        /\ pc[k] \in {"start", "locked"} =>
               /\ pass[k].applied = <<>>
               /\ pass[k].status_patches = 0
               /\ pass[k].meta_patches = 0
               /\ zk[k].status = snap[k].status

C10_Witness ==
    \E k \in Keys :
        /\ pc[k] = "done"
        /\ IsSome(err[k])
        /\ pass[k].dispatched_at = 2
        /\ last_event = 2

\* C8: for every replicaCount N >= 0 the loop yields exactly N child
\* specifications, the i-th named "{resourceName}-{i}" and carrying that
\* name, with pairwise distinct names; N = 0 yields none.
C8_DesiredChildren ==
    \A k \in Keys :
        LET applied == pass[k].applied IN
        /\ \A j \in 1..Len(applied) :
               /\ applied[j] = k \o "-" \o Decimal(j - 1)
               /\ applied[j] \in DOMAIN pods
               /\ pods[applied[j]].applied.metadata.name = Some(applied[j])
        /\ \A a, b \in 1..Len(applied) : a # b => applied[a] # applied[b]
        /\ Len(applied) <= snap[k].spec.replicas
        /\ (pc[k] = "done" /\ err[k] = None) =>
               /\ Len(applied) = snap[k].spec.replicas
               /\ Cardinality(DOMAIN pods) = snap[k].spec.replicas
        /\ snap[k].spec.replicas = 0 => DOMAIN pods = {}

C8_Witness ==
    \E k \in Keys :
        /\ pc[k] = "done"
        /\ err[k] = None
        /\ snap[k].spec.replicas = 11
        /\ pass[k].applied[11] = "zk1-10"
        /\ Cardinality(DOMAIN pods) = 11

\* A pass of key k ends in this step having completed every step without
\* error on a non-deleting resource.
CompletesActive(k) ==
    /\ pc[k] # "done"
    /\ pc'[k] = "done"
    /\ err'[k] = None
    /\ Active(snap[k])

\* C11: handled_events never decreases and counts exactly the invocations
\* that completed every step without error on a non-deleting resource: it
\* goes up by one in the step that ends such an invocation and is left
\* alone by every other step (failed and deletion-handled invocations
\* included).
C11_CounterCountsCompletions ==
    [][ /\ handled_events' >= handled_events
        /\ (\E k \in Keys : CompletesActive(k)) =>
               handled_events' = handled_events + 1
        /\ ~(\E k \in Keys : CompletesActive(k)) =>
               handled_events' = handled_events ]_vars

\* The first failed call of the pass was the status patch.
StatusFault(fault) == IsSome(fault) /\ Unwrap(fault).stage = "status"

\* C14: if the status patch fails (serialization or the call itself), the
\* pass ends there with an error that goes to error_policy (requeue after
\* 360 s): no child is applied in the pass, no status is written and
\* handled_events is not incremented.
C14_StatusPatchFailure ==
    \A k \in Keys :
        StatusFault(pass[k].fault) =>
            /\ pc[k] \in {"failed", "done"}
            /\ err[k] \in {Some("SerializationFailed"),
                        Some("ZooKeeperClusterPatchFailed")}
            /\ pass[k].applied = <<>>
            /\ pass[k].status_patches = 0
            /\ zk[k].status = snap[k].status
            /\ pass[k].incs = 0
            /\ pc[k] = "done" => action[k] = Some([requeue_after |-> Some(360)])

C14_Witness ==
    \E k \in Keys :
        /\ pc[k] = "done"
        /\ pass[k].fault = Some([stage |-> "status", idx |-> 0])
        /\ err[k] = Some("ZooKeeperClusterPatchFailed")
        /\ snap[k].spec.replicas = 2
        /\ pass[k].applied = <<>>
        /\ action[k] = Some([requeue_after |-> Some(360)])

\* C15: under fair scheduling and a backend that eventually succeeds, (a) an
\* Active resource eventually has the token in its persisted finalizers
\* (unless it is deleted first) and (b) a deleting resource that has the
\* token eventually has it removed.
C15_FinalizerLiveness ==
    \A k \in Keys :
        /\ Active(zk[k]) ~> (HasToken(zk[k]) \/ ~Active(zk[k]))
        /\ (~Active(zk[k]) /\ HasToken(zk[k])) ~> ~HasToken(zk[k])

\* This step issues the status patch of the pass of key k (it succeeds or it
\* is the first call of the pass to fail).
StatusStep(k) ==
    \/ pass'[k].status_patches = pass[k].status_patches + 1
    \/ pass[k].fault = None /\ StatusFault(pass'[k].fault)

\* This step issues the apply of a child in the pass of key k.
ApplyStep(k) ==
    \/ Len(pass'[k].applied) = Len(pass[k].applied) + 1
    \/ pass[k].fault = None /\ ApplyFault(pass'[k].fault)

\* C16 as stated: within one reconcile of a non-deleting resource the status
\* patch is issued only after every child apply of the pass has succeeded
\* (Finalizer Manager, then the Applier per child in index order, then the
\* Status Reporter).
C16_StatusAfterChildren ==
    [][ \A k \in Keys :
          Active(snap[k]) =>
            /\ StatusStep(k) =>
                   pass[k].applied = ChildNames(k, snap[k].spec.replicas)
            /\ ApplyStep(k) => pass[k].status_patches = 0 ]_vars

\* C16 amended: within one reconcile of a non-deleting resource the
\* Finalizer Manager is consulted first, then the Status Reporter issues
\* the status patch, then the Applier applies the children in index order;
\* every child apply is issued only after the status patch of that pass has
\* succeeded.
C16_StatusBeforeChildren ==
    [][ \A k \in Keys :
          Active(snap[k]) =>
            /\ StatusStep(k) =>
                   /\ IsSome(pass[k].handled)
                   /\ pass[k].applied = <<>>
            /\ ApplyStep(k) =>
                   /\ IsSome(pass[k].handled)
                   /\ pass[k].status_patches = 1
                   /\ pass[k].applied = ChildNames(k, Len(pass[k].applied))
                   /\ Len(pass'[k].applied) = Len(pass[k].applied) + 1 =>
                          pass'[k].applied =
                              ChildNames(k, Len(pass[k].applied) + 1) ]_vars

C16_Witness ==
    \E k \in Keys :
        /\ Active(snap[k])
        /\ pc[k] = "apply"
        /\ snap[k].spec.replicas = 2
        /\ pass[k].handled = Some(FALSE)
        /\ pass[k].status_patches = 1
        /\ zk[k].status = Some([is_bad |-> FALSE])
        /\ pass[k].applied = <<"zk1-0">>

\* The owner references of the applied object n.
OwnerRefs(n) == Unwrap(pods[n].applied.metadata.owner_references)

FailedPass(k) == pc[k] = "done" /\ IsSome(err[k])

\* The pass of key k has ended without error, has applied all the children
\* of its snapshot and has incremented handled_events.
FullPass(k) ==
    /\ pc[k] = "done"
    /\ err[k] = None
    /\ pass[k].applied = ChildNames(k, snap[k].spec.replicas)
    /\ AllPresent(pass[k].applied)
    /\ pass[k].incs = 1

\* C18: no error ends the retry loop: the directive of a failed pass is
\* requeue after 360 s whatever the error and however many passes failed
\* before it, so under fair re-delivery, once the calls stop failing, a
\* failed pass is followed by a pass that applies all N children and
\* increments handled_events.
C18_RetryUntilSuccess ==
    /\ [](\A k \in Keys :
             FailedPass(k) => action[k] = Some([requeue_after |-> Some(360)]))
    /\ \A k \in Keys : FailedPass(k) ~> FullPass(k)

C18_Witness ==
    \E k \in Keys :
        /\ FullPass(k)
        /\ snap[k].spec.replicas = 2
        /\ IsSome(pass[k].prev)
        /\ IsSome(Unwrap(pass[k].prev).err)
        /\ handled_events = 1

\* The task of key k is at a call to the backend (metadata patch, status
\* patch or child apply).
AtNetworkCall(k) == pc[k] \in {"handle_deletion", "patch_status", "apply"}

\* C19: the write lock on the State is never held across a call to the
\* backend: a reconcile task that is at a metadata patch, a status patch or
\* a child apply does not hold the lock (it is held only within the
\* statement that writes last_event), so a reader (Manager::state) is never
\* kept waiting by a reconcile that waits for the backend.
C19_NoLockAcrossNetwork ==
    /\ \A k \in Keys :
           /\ lock.writer = Some(k) => pc[k] = "locked"
           /\ AtNetworkCall(k) =>
                  /\ lock.writer = None
                  /\ \A r \in Readers :
                         r \notin lock.readers => ENABLED StateReadBegin(r)
    /\ lock.writer # None => lock.readers = {}

C19_Witness ==
    \E k \in Keys :
        /\ pc[k] = "apply"
        /\ snap[k].spec.replicas = 2
        /\ Len(pass[k].applied) = 1
        /\ lock.readers = {"status"}
        /\ last_event = pass[k].dispatched_at

\* The name of the resource that owns the object obj.
OwnerOf(obj) == Unwrap(obj.applied.metadata.owner_references)[1].name

\* C20: the controller never removes a child: in every step every child in
\* the backend stays there, owned by the same resource, so the set of
\* applied child names only grows; a successful reconcile after replicas
\* was lowered from N to M applies children 0..M-1 and leaves children
\* M..N-1 present and owned by the resource.
C20_ChildrenOnlyGrow ==
    /\ [][ \A n \in DOMAIN pods :
              /\ n \in DOMAIN pods'
              /\ OwnerOf(pods'[n]) = OwnerOf(pods[n]) ]_vars
    /\ [](\A k \in Keys :
             (pc[k] = "done" /\ err[k] = None) =>
                 /\ pass[k].applied = ChildNames(k, snap[k].spec.replicas)
                 /\ AllPresent(pass[k].applied)
                 /\ \A n \in DOMAIN pods : OwnerOf(pods[n]) \in Keys)

C20_Witness ==
    \E k \in Keys :
        /\ pc[k] = "done"
        /\ err[k] = None
        /\ snap[k].spec.replicas = 1
        /\ pass[k].applied = <<"zk1-0">>
        /\ DOMAIN pods = {"zk1-0", "zk1-1"}
        /\ OwnerOf(pods["zk1-1"]) = k

====
